---- MODULE Spec2Model ----
(***************************************************************************)
(* Bible-Duo: the streak computation (WidgetView.calculateStreaks, the     *)
(* Scriptable widget's calculateStreaks, the Dashboard's inline streak),   *)
(* the passage-reference parser, book-name lookup and verse resolver of    *)
(* ReadingView, the settings of App with their persistence and the         *)
(* operations that change them (completion, navigation, plan selection,    *)
(* export, import, deletion), the fetchData effects of ReadingView and     *)
(* WidgetView behind the router, and the widget data updater script.       *)
(*                                                                         *)
(* Dates.  A date string "YYYY-MM-DD" is the tuple <<y, m, d>>; the        *)
(* lexicographic order of the strings is the lexicographic order of the    *)
(* tuples.  A JavaScript Date is its time value, counted here in hours     *)
(* since 2026-01-01T00:00Z (the code only ever holds whole hours).         *)
(***************************************************************************)
EXTENDS Integers, Sequences, FiniteSets, TLC

VARIABLES
    completedDays,     \* settings.completedDays: the set of completed day numbers
    completionDates,   \* settings.completionDates: day number -> date string
    today,             \* the UTC calendar date of the clock, as a date string
    tz,                \* the time zone of the runtime (Date's local time)
    stats,             \* << >> or <<the result of the last calculateStreaks call>>
    statsAt,           \* << >> or <<the value of today at that call>>
    translation,       \* settings.translation: "ESV" or "CUVS"
    bible,             \* ReadingView's bible state: << >> for null, else <<document>>
    plan,              \* ReadingView's plan state: FALSE for null, TRUE when loaded
    reference,         \* the reference string at hand, a sequence of characters
    parts,             \* how the reference string was put together
    parsed,            \* whether parsePassageReference has run on it
    passageInfo,       \* its result: << >> for null, else <<PassageInfo>>
    resolved,          \* whether getVersesForPassage has run on it
    verses,            \* its result: [threw, verses], verses the Verse list
    bookArg,           \* the book name handed to mapBookName
    mapped,            \* << >> or <<what mapBookName returned for it>>
    datesShape,        \* what settings.completionDates is: "Map", "Object" or "Array"
    currentDay,        \* settings.currentDay
    selectedPlan,      \* whether settings.selectedPlan is set
    storage,           \* localStorage 'bibleAppSettings': << >> or <<the parsed JSON>>
    crashed,           \* whether an uncaught error has unmounted the application
    outcome,           \* how the Dashboard's last streak computation ended
    exported,          \* << >> or <<the file exportData wrote and the settings it saw>>
    importError,       \* whether Settings' importError message is set
    importSuccess,     \* whether Settings' importSuccess message is set
    widgetPlan,        \* WidgetView's plan state: FALSE for null, TRUE when loaded
    widgetLoading,     \* WidgetView's loading state
    widgetStats,       \* WidgetView's currentStreak, longestStreak, totalCompleted, totalDays
    widgetFetch,       \* << >> or <<the plan state seen by the running fetchData>>
    route,             \* the route the router shows
    loading,           \* ReadingView's loading state
    fetches,           \* the fetchData calls of ReadingView still in flight
    instance,          \* the number of times ReadingView has been mounted
    keychain           \* the updater's Keychain item "BibleDuoData": << >> or <<the parsed JSON>>

streakVars == <<completedDays, completionDates, today, tz, stats, statsAt>>
readVars == <<translation, bible, plan, reference, parts, parsed, passageInfo,
              resolved, verses>>
mapVars == <<bookArg, mapped>>
appVars == <<datesShape, currentDay, selectedPlan, storage, crashed, outcome>>
pageVars == <<exported, importError, importSuccess>>
widgetVars == <<widgetPlan, widgetLoading, widgetStats, widgetFetch>>
fetchVars == <<route, loading, fetches, instance>>
updaterVars == <<keychain>>
vars == <<completedDays, completionDates, today, tz, stats, statsAt,
          translation, bible, plan, reference, parts, parsed, passageInfo,
          resolved, verses, bookArg, mapped,
          datesShape, currentDay, selectedPlan, storage, crashed, outcome,
          exported, importError, importSuccess,
          widgetPlan, widgetLoading, widgetStats, widgetFetch,
          route, loading, fetches, instance, keychain>>

----------------------------------------------------------------------------
(* Bounds *)

MaxDay == 3        \* day numbers are 1..MaxDay (1..MaxDay + 1 in SpecStreakWide)
NumDates == 3      \* the dates of the window: FirstDate and the days after it
MaxNum == 2        \* chapter and verse numbers are 1..MaxNum, 12 and 150
MaxRawLen == 4     \* arbitrary reference strings have at most MaxRawLen characters
MaxRecords == 3    \* a document holds at most MaxRecords verses of the book looked up

Days == 1..MaxDay

----------------------------------------------------------------------------
(* The calendar of 2026, and Date's conversions *)

DaysInMonth(m) ==
    IF m = 2 THEN 28
    ELSE IF m \in {4, 6, 9, 11} THEN 30 ELSE 31

RECURSIVE DaysBeforeMonth(_)
DaysBeforeMonth(m) == IF m = 1 THEN 0 ELSE DaysBeforeMonth(m - 1) + DaysInMonth(m - 1)

\* new Date("YYYY-MM-DD").getTime(): a date-only string is UTC midnight.
ParseDate(s) == 24 * (DaysBeforeMonth(s[2]) + s[3] - 1)

RECURSIVE MonthDay(_, _)
MonthDay(m, n) ==
    IF n < DaysInMonth(m) THEN <<2026, m, n + 1>>
    ELSE MonthDay(m + 1, n - DaysInMonth(m))

\* date.toISOString().split('T')[0]: the UTC calendar date of a time value.
ToISODate(t) == MonthDay(1, t \div 24)

\* The date strings of the window.
FirstDate == <<2026, 10, 31>>
DateWindow == { ToISODate(ParseDate(FirstDate) + 24 * k) : k \in 0..(NumDates - 1) }

\* String comparison a < b of two date strings.
StrLess(a, b) ==
    \/ a[1] < b[1]
    \/ a[1] = b[1] /\ a[2] < b[2]
    \/ a[1] = b[1] /\ a[2] = b[2] /\ a[3] < b[3]

----------------------------------------------------------------------------
(* The runtime's time zone: Date's local-time methods *)

TimeZones == {"UTC", "America/New_York"}

\* America/New_York leaves daylight saving time on 2026-11-01 at 06:00Z.
DstEnd == ParseDate(<<2026, 11, 1>>) + 6

\* LocalTZA(t, true): the hours to add to the UTC time t to get local time.
UtcOffset(zone, t) ==
    CASE zone = "UTC" -> 0
      [] zone = "America/New_York" -> IF t < DstEnd THEN 0 - 4 ELSE 0 - 5

\* UTC(wall): the UTC time of a local wall-clock time.
LocalToUtc(zone, wall) ==
    CASE zone = "UTC" -> wall
      [] zone = "America/New_York" -> IF wall + 4 < DstEnd THEN wall + 4 ELSE wall + 5

\* currentDate.setDate(currentDate.getDate() - 1): the same local wall-clock
\* time on the previous local calendar day.
SetDateMinusOne(zone, t) == LocalToUtc(zone, (t + UtcOffset(zone, t)) - 24)

----------------------------------------------------------------------------
(* calculateStreaks *)

RECURSIVE SortedDays(_)
\* Array.from(completedDays).sort((a, b) => a - b)
SortedDays(days) ==
    IF days = {} THEN << >>
    ELSE LET least == CHOOSE d \in days : \A e \in days : d <= e
         IN  <<least>> \o SortedDays(days \ {least})

\* DateOfDay looking the day up under the key before it.
DateOfDayOffByOne(dates, dayNumber, now) ==
    IF (dayNumber - 1) \in DOMAIN dates THEN dates[dayNumber - 1] ELSE now

\* DateOfDay with a fixed default date in place of today's.
DateOfDayFixedFallback(dates, dayNumber, now) ==
    IF dayNumber \in DOMAIN dates THEN dates[dayNumber] ELSE FirstDate

\* The date pushed for one completed day: the recorded date, else today's.
DateOfDay(dates, dayNumber, now) ==
    IF dayNumber \in DOMAIN dates THEN dates[dayNumber] ELSE now

\* completionDateStrings: one date string per completed day.
CompletionDateStrings(days, dates, now) ==
    LET completedArray == SortedDays(days)
    IN  [i \in 1..Len(completedArray) |-> DateOfDay(dates, completedArray[i], now)]

RECURSIVE InsertSorted(_, _)
InsertSorted(s, x) ==
    IF s = << >> THEN <<x>>
    ELSE IF StrLess(x, Head(s)) THEN <<x>> \o s
    ELSE <<Head(s)>> \o InsertSorted(Tail(s), x)

RECURSIVE SortStrings(_)
\* completionDateStrings.sort(): ascending in string order, duplicates kept.
SortStrings(s) ==
    IF s = << >> THEN << >> ELSE InsertSorted(SortStrings(Tail(s)), Head(s))

Includes(s, x) == \E i \in 1..Len(s) : s[i] = x

RECURSIVE CountBackwards(_, _, _, _)
\* while (sortedDates.includes(iso(currentDate))) { streak++; setDate(getDate() - 1) }
CountBackwards(sortedDates, currentDate, zone, streak) ==
    IF Includes(sortedDates, ToISODate(currentDate))
    THEN CountBackwards(sortedDates, SetDateMinusOne(zone, currentDate), zone, streak + 1)
    ELSE streak

Max(a, b) == IF a >= b THEN a ELSE b

RECURSIVE ScanLongest(_, _, _, _, _)
\* The forEach of the longest-streak scan from index i on; lastDate is << >> for
\* null, else <<time value>>.  Returns <<maxStreak, currentStreakCount>>.
ScanLongest(sortedDates, i, lastDate, maxStreak, currentStreakCount) ==
    IF i > Len(sortedDates) THEN <<maxStreak, currentStreakCount>>
    ELSE LET currentDate == ParseDate(sortedDates[i])
         IN  IF lastDate = << >>
             THEN ScanLongest(sortedDates, i + 1, <<currentDate>>, maxStreak, 1)
             ELSE LET dayDiff == (currentDate - lastDate[1]) \div 24
                  IN  IF dayDiff = 1
                      THEN ScanLongest(sortedDates, i + 1, <<currentDate>>,
                                       maxStreak, currentStreakCount + 1)
                      ELSE ScanLongest(sortedDates, i + 1, <<currentDate>>,
                                       Max(maxStreak, currentStreakCount), 1)

\* calculateStreaks counting the entries of completionDates as completed.
calculateStreaksCountsDates(days, dates, now, zone) ==
    IF days = {}
    THEN [currentStreak |-> 0, longestStreak |-> 0,
          totalCompleted |-> Cardinality(DOMAIN dates)]
    ELSE LET sortedDates == SortStrings(CompletionDateStrings(days, dates, now))
             mostRecent  == ParseDate(sortedDates[Len(sortedDates)])
             scan        == ScanLongest(sortedDates, 1, << >>, 0, 0)
         IN  [currentStreak  |-> CountBackwards(sortedDates, mostRecent, zone, 0),
              longestStreak  |-> Max(scan[1], scan[2]),
              totalCompleted |-> Cardinality(DOMAIN dates)]

calculateStreaks(days, dates, now, zone) ==
    IF days = {}
    THEN [currentStreak |-> 0, longestStreak |-> 0, totalCompleted |-> 0]
    ELSE LET sortedDates == SortStrings(CompletionDateStrings(days, dates, now))
             mostRecent  == ParseDate(sortedDates[Len(sortedDates)])
             scan        == ScanLongest(sortedDates, 1, << >>, 0, 0)
         IN  [currentStreak  |-> CountBackwards(sortedDates, mostRecent, zone, 0),
              longestStreak  |-> Max(scan[1], scan[2]),
              totalCompleted |-> Cardinality(days)]

----------------------------------------------------------------------------
(* The streak computation applied to a completion record *)

\* The Settings page with nothing exported and no import message.
PageIdle ==
    /\ exported = << >>
    /\ importError = FALSE
    /\ importSuccess = FALSE

\* WidgetView's state before it is mounted: the useState initial values.
WidgetIdle ==
    /\ widgetPlan = FALSE
    /\ widgetLoading = TRUE
    /\ widgetStats = [currentStreak |-> 0, longestStreak |-> 0,
                      totalCompleted |-> 0, totalDays |-> 0]
    /\ widgetFetch = << >>

\* The router at the Dashboard, ReadingView never mounted.
FetchIdle ==
    /\ route = "/"
    /\ loading = TRUE
    /\ fetches = {}
    /\ instance = 0

\* The updater never run: no Keychain item.
UpdaterIdle == keychain = << >>

\* The rest of the settings as App's initializer sets them on an empty
\* localStorage, nothing stored and nothing rendered.
AppIdle ==
    /\ PageIdle
    /\ WidgetIdle
    /\ FetchIdle
    /\ UpdaterIdle
    /\ datesShape = "Map"
    /\ currentDay = 1
    /\ selectedPlan = FALSE
    /\ storage = << >>
    /\ crashed = FALSE
    /\ outcome = [kind |-> "none", streak |-> 0]

\* No book name looked up.
MapIdle ==
    /\ AppIdle
    /\ bookArg = << >>
    /\ mapped = << >>

\* The reading view before anything is loaded or looked up.
ReadIdle ==
    /\ MapIdle
    /\ translation = "ESV"
    /\ bible = << >>
    /\ plan = FALSE
    /\ reference = << >>
    /\ parts = [form |-> "none"]
    /\ parsed = FALSE
    /\ passageInfo = << >>
    /\ resolved = FALSE
    /\ verses = [threw |-> FALSE, verses |-> << >>]

\* The completion records: any set of completed days, each with or without a
\* recorded date; and the records left by selectPlan and deleteAllData, which
\* empty completedDays and keep completionDates.
StreakInitOver(dayNumbers) ==
    /\ completedDays \in SUBSET dayNumbers
    /\ \E dated \in SUBSET dayNumbers :
          /\ completedDays = {} \/ dated \subseteq completedDays
          /\ completionDates \in [dated -> DateWindow]
    /\ today \in DateWindow
    /\ tz \in TimeZones
    /\ stats = << >>
    /\ statsAt = << >>
    /\ ReadIdle

StreakInit == StreakInitOver(Days)

\* The same with one more day number: a date shared by two completed days
\* inside a run of three dates takes four completed days.
StreakInitWide == StreakInitOver(1..(MaxDay + 1))

\* One call of calculateStreaks on the record, at the clock's date.
Calculate ==
    /\ stats' = <<calculateStreaks(completedDays, completionDates, today, tz)>>
    /\ statsAt' = <<today>>
    /\ UNCHANGED <<completedDays, completionDates, today, tz>>
    /\ UNCHANGED readVars
    /\ UNCHANGED mapVars
    /\ UNCHANGED appVars
    /\ UNCHANGED <<pageVars, widgetVars, fetchVars, updaterVars>>

\* Midnight UTC passes.
Tick ==
    /\ ToISODate(ParseDate(today) + 24) \in DateWindow
    /\ today' = ToISODate(ParseDate(today) + 24)
    /\ UNCHANGED <<completedDays, completionDates, tz, stats, statsAt>>
    /\ UNCHANGED readVars
    /\ UNCHANGED mapVars
    /\ UNCHANGED appVars
    /\ UNCHANGED <<pageVars, widgetVars, fetchVars, updaterVars>>

\* The Dashboard's inline streak: the current streak alone.
DashboardStreak(days, dates, now, zone) ==
    IF days = {} THEN 0
    ELSE LET sortedDates == SortStrings(CompletionDateStrings(days, dates, now))
         IN  CountBackwards(sortedDates, ParseDate(sortedDates[Len(sortedDates)]), zone, 0)

StreakNext == Calculate \/ Tick

SpecStreak == StreakInit /\ [][StreakNext]_vars

SpecStreakWide == StreakInitWide /\ [][StreakNext]_vars

----------------------------------------------------------------------------
(* Reference strings.  A string is the sequence of its characters; a run of  *)
(* letters that the patterns cannot tell apart (a word such as Genesis) is   *)
(* written as one character.                                                 *)

DigitChars == <<"0", "1", "2", "3", "4", "5", "6", "7", "8", "9">>

IsDigit(c) == \E i \in 1..10 : DigitChars[i] = c                 \* \d
IsSpace(c) == c \in {" ", "\t", "\n"}                              \* \s
IsLineTerminator(c) == c = "\n"                                   \* not matched by .

DigitValue(c) == (CHOOSE i \in 1..10 : DigitChars[i] = c) - 1

RECURSIVE parseIntFrom(_, _)
parseIntFrom(digits, acc) ==
    IF digits = << >> THEN acc
    ELSE parseIntFrom(Tail(digits), 10 * acc + DigitValue(Head(digits)))

\* parseInt(s) of a string of digits.
parseInt(digits) == parseIntFrom(digits, 0)

RECURSIVE toString(_)
\* Number.prototype.toString of a non-negative integer.
toString(n) ==
    IF n < 10 THEN <<DigitChars[n + 1]>>
    ELSE toString(n \div 10) \o <<DigitChars[(n % 10) + 1]>>

\* The length of the longest run of digits that s starts with: \d+, greedy.
DigitsLen(s) ==
    CHOOSE n \in 0..Len(s) :
        /\ \A i \in 1..n : IsDigit(s[i])
        /\ n = Len(s) \/ ~IsDigit(s[n + 1])

\* The length of the longest run of white space that s starts with: \s+, greedy.
SpacesLen(s) ==
    CHOOSE n \in 0..Len(s) :
        /\ \A i \in 1..n : IsSpace(s[i])
        /\ n = Len(s) \/ ~IsSpace(s[n + 1])

Drop(s, n) == SubSeq(s, n + 1, Len(s))

NoMatch == [ok |-> FALSE, book |-> << >>, nums |-> << >>]

RECURSIVE MatchNumbersUnanchored(_, _, _)
\* MatchNumbers without the $ of the patterns: text may follow the last number.
MatchNumbersUnanchored(s, seps, nums) ==
    LET n == DigitsLen(s)
        rest == Drop(s, n)
    IN  IF n = 0 THEN NoMatch
        ELSE IF seps = << >>
             THEN [ok |-> TRUE, book |-> << >>, nums |-> Append(nums, SubSeq(s, 1, n))]
             ELSE IF rest # << >> /\ Head(rest) = Head(seps)
                  THEN MatchNumbersUnanchored(Tail(rest), Tail(seps),
                                              Append(nums, SubSeq(s, 1, n)))
                  ELSE NoMatch

RECURSIVE MatchNumbers(_, _, _)
\* (\d+) sep (\d+) sep ... (\d+) $ on s, one separator per element of seps:
\* the captured digit strings so far are in nums.
MatchNumbers(s, seps, nums) ==
    LET n == DigitsLen(s)
        rest == Drop(s, n)
    IN  IF n = 0 THEN NoMatch
        ELSE IF seps = << >>
             THEN IF rest = << >>
                  THEN [ok |-> TRUE, book |-> << >>, nums |-> Append(nums, SubSeq(s, 1, n))]
                  ELSE NoMatch
             ELSE IF rest # << >> /\ Head(rest) = Head(seps)
                  THEN MatchNumbers(Tail(rest), Tail(seps), Append(nums, SubSeq(s, 1, n)))
                  ELSE NoMatch

\* \s+ (\d+) sep ... (\d+) $ on s.
MatchTail(s, seps) ==
    LET w == SpacesLen(s)
    IN  IF w = 0 THEN NoMatch ELSE MatchNumbers(Drop(s, w), seps, << >>)

RECURSIVE MatchFromOneWord(_, _, _)
\* MatchFrom with a book group that takes no white space, as (\S+?) would.
MatchFromOneWord(s, seps, k) ==
    IF k > Len(s) \/ IsSpace(s[k]) THEN NoMatch
    ELSE LET tail == MatchTail(Drop(s, k), seps)
         IN  IF tail.ok
             THEN [ok |-> TRUE, book |-> SubSeq(s, 1, k), nums |-> tail.nums]
             ELSE MatchFromOneWord(s, seps, k + 1)

RECURSIVE MatchFrom(_, _, _)
\* ^(.+?) followed by the tail pattern, the lazy group trying k characters
\* first, then k + 1, ...
MatchFrom(s, seps, k) ==
    IF k > Len(s) \/ IsLineTerminator(s[k]) THEN NoMatch
    ELSE LET tail == MatchTail(Drop(s, k), seps)
         IN  IF tail.ok
             THEN [ok |-> TRUE, book |-> SubSeq(s, 1, k), nums |-> tail.nums]
             ELSE MatchFrom(s, seps, k + 1)

\* reference.match(/^(.+?)\s+(\d+)<sep>(\d+)...$/)
Match(s, seps) == MatchFrom(s, seps, 1)

\* parsePassageReference without its cross-chapter pattern.
parsePassageReferenceNoCross(ref) ==
    LET singleChapterMatch == Match(ref, <<":", "-">>)
        singleVerseMatch   == Match(ref, <<":">>)
    IN  IF singleChapterMatch.ok
        THEN <<[book         |-> singleChapterMatch.book,
                startChapter |-> parseInt(singleChapterMatch.nums[1]),
                startVerse   |-> parseInt(singleChapterMatch.nums[2]),
                endChapter   |-> parseInt(singleChapterMatch.nums[1]),
                endVerse     |-> parseInt(singleChapterMatch.nums[3])]>>
        ELSE IF singleVerseMatch.ok
        THEN <<[book         |-> singleVerseMatch.book,
                startChapter |-> parseInt(singleVerseMatch.nums[1]),
                startVerse   |-> parseInt(singleVerseMatch.nums[2]),
                endChapter   |-> parseInt(singleVerseMatch.nums[1]),
                endVerse     |-> parseInt(singleVerseMatch.nums[2])]>>
        ELSE << >>

\* parsePassageReference taking the start verse of a single-chapter range for
\* its end verse too.
parsePassageReferenceRangeEndsAtStart(ref) ==
    LET crossChapterMatch  == Match(ref, <<":", "-", ":">>)
        singleChapterMatch == Match(ref, <<":", "-">>)
        singleVerseMatch   == Match(ref, <<":">>)
    IN  IF crossChapterMatch.ok
        THEN <<[book         |-> crossChapterMatch.book,
                startChapter |-> parseInt(crossChapterMatch.nums[1]),
                startVerse   |-> parseInt(crossChapterMatch.nums[2]),
                endChapter   |-> parseInt(crossChapterMatch.nums[3]),
                endVerse     |-> parseInt(crossChapterMatch.nums[4])]>>
        ELSE IF singleChapterMatch.ok
        THEN <<[book         |-> singleChapterMatch.book,
                startChapter |-> parseInt(singleChapterMatch.nums[1]),
                startVerse   |-> parseInt(singleChapterMatch.nums[2]),
                endChapter   |-> parseInt(singleChapterMatch.nums[1]),
                endVerse     |-> parseInt(singleChapterMatch.nums[2])]>>
        ELSE IF singleVerseMatch.ok
        THEN <<[book         |-> singleVerseMatch.book,
                startChapter |-> parseInt(singleVerseMatch.nums[1]),
                startVerse   |-> parseInt(singleVerseMatch.nums[2]),
                endChapter   |-> parseInt(singleVerseMatch.nums[1]),
                endVerse     |-> parseInt(singleVerseMatch.nums[2])]>>
        ELSE << >>

parsePassageReference(ref) ==
    LET crossChapterMatch  == Match(ref, <<":", "-", ":">>)
        singleChapterMatch == Match(ref, <<":", "-">>)
        singleVerseMatch   == Match(ref, <<":">>)
    IN  IF crossChapterMatch.ok
        THEN <<[book         |-> crossChapterMatch.book,
                startChapter |-> parseInt(crossChapterMatch.nums[1]),
                startVerse   |-> parseInt(crossChapterMatch.nums[2]),
                endChapter   |-> parseInt(crossChapterMatch.nums[3]),
                endVerse     |-> parseInt(crossChapterMatch.nums[4])]>>
        ELSE IF singleChapterMatch.ok
        THEN <<[book         |-> singleChapterMatch.book,
                startChapter |-> parseInt(singleChapterMatch.nums[1]),
                startVerse   |-> parseInt(singleChapterMatch.nums[2]),
                endChapter   |-> parseInt(singleChapterMatch.nums[1]),
                endVerse     |-> parseInt(singleChapterMatch.nums[3])]>>
        ELSE IF singleVerseMatch.ok
        THEN <<[book         |-> singleVerseMatch.book,
                startChapter |-> parseInt(singleVerseMatch.nums[1]),
                startVerse   |-> parseInt(singleVerseMatch.nums[2]),
                endChapter   |-> parseInt(singleVerseMatch.nums[1]),
                endVerse     |-> parseInt(singleVerseMatch.nums[2])]>>
        ELSE << >>

----------------------------------------------------------------------------
(* getVersesForPassage *)

\* The English-to-Chinese book names of mapBookName: <<key, value>> pairs.  A
\* Chinese name is one word, written as its code points.
bookMapping ==
    {
      <<<<"Genesis">>, <<"u521Bu4E16u8BB0">>>>
    , <<<<"Exodus">>, <<"u51FAu57C3u53CA">>>>
    , <<<<"Leviticus">>, <<"u5229u672Au8BB0">>>>
    , <<<<"Numbers">>, <<"u6C11u6570u8BB0">>>>
    , <<<<"Deuteronomy">>, <<"u7533u547Du8BB0">>>>
    , <<<<"Joshua">>, <<"u7EA6u4E66u4E9Au8BB0">>>>
    , <<<<"Judges">>, <<"u58EBu5E08u8BB0">>>>
    , <<<<"Ruth">>, <<"u8DEFu5F97u8BB0">>>>
    , <<<<"1", "Samuel">>, <<"u6492u6BCDu8033u8BB0u4E0A">>>>
    , <<<<"2", "Samuel">>, <<"u6492u6BCDu8033u8BB0u4E0B">>>>
    , <<<<"1", "Kings">>, <<"u5217u738Bu7EAAu4E0A">>>>
    , <<<<"2", "Kings">>, <<"u5217u738Bu7EAAu4E0B">>>>
    , <<<<"1", "Chronicles">>, <<"u5386u4EE3u5FD7u4E0A">>>>
    , <<<<"2", "Chronicles">>, <<"u5386u4EE3u5FD7u4E0B">>>>
    , <<<<"Ezra">>, <<"u4EE5u65AFu62C9u8BB0">>>>
    , <<<<"Nehemiah">>, <<"u5C3Cu5E0Cu7C73u8BB0">>>>
    , <<<<"Esther">>, <<"u4EE5u65AFu5E16u8BB0">>>>
    , <<<<"Job">>, <<"u7EA6u4F2Fu8BB0">>>>
    , <<<<"Psalm">>, <<"u8BD7u7BC7">>>>
    , <<<<"Proverbs">>, <<"u7BB4u8A00">>>>
    , <<<<"Ecclesiastes">>, <<"u4F20u9053u4E66">>>>
    , <<<<"SongOfSongs">>, <<"u96C5u6B4C">>>>
    , <<<<"Isaiah">>, <<"u4EE5u8D5Bu4E9Au4E66">>>>
    , <<<<"Jeremiah">>, <<"u8036u5229u7C73u4E66">>>>
    , <<<<"Lamentations">>, <<"u8036u5229u7C73u54C0u6B4C">>>>
    , <<<<"Ezekiel">>, <<"u4EE5u897Fu7ED3u4E66">>>>
    , <<<<"Daniel">>, <<"u4F46u4EE5u7406u4E66">>>>
    , <<<<"Hosea">>, <<"u4F55u897Fu963Fu4E66">>>>
    , <<<<"Joel">>, <<"u7EA6u73E5u4E66">>>>
    , <<<<"Amos">>, <<"u963Fu6469u53F8u4E66">>>>
    , <<<<"Obadiah">>, <<"u4FC4u5DF4u5E95u4E9Au4E66">>>>
    , <<<<"Jonah">>, <<"u7EA6u62FFu4E66">>>>
    , <<<<"Micah">>, <<"u5F25u8FE6u4E66">>>>
    , <<<<"Nahum">>, <<"u90A3u9E3Fu4E66">>>>
    , <<<<"Habakkuk">>, <<"u54C8u5DF4u8C37u4E66">>>>
    , <<<<"Zephaniah">>, <<"u897Fu756Au96C5u4E66">>>>
    , <<<<"Haggai">>, <<"u54C8u8BE5u4E66">>>>
    , <<<<"Zechariah">>, <<"u6492u8FE6u5229u4E9Au4E66">>>>
    , <<<<"Malachi">>, <<"u739Bu62C9u57FAu4E66">>>>
    , <<<<"Matthew">>, <<"u9A6Cu592Au798Fu97F3">>>>
    , <<<<"Mark">>, <<"u9A6Cu53EFu798Fu97F3">>>>
    , <<<<"Luke">>, <<"u8DEFu52A0u798Fu97F3">>>>
    , <<<<"John">>, <<"u7EA6u7FF0u798Fu97F3">>>>
    , <<<<"Acts">>, <<"u4F7Fu5F92u884Cu4F20">>>>
    , <<<<"Romans">>, <<"u7F57u9A6Cu4E66">>>>
    , <<<<"1", "Corinthians">>, <<"u6B4Cu6797u591Au524Du4E66">>>>
    , <<<<"2", "Corinthians">>, <<"u6B4Cu6797u591Au540Eu4E66">>>>
    , <<<<"Galatians">>, <<"u52A0u62C9u592Au4E66">>>>
    , <<<<"Ephesians">>, <<"u4EE5u5F17u6240u4E66">>>>
    , <<<<"Philippians">>, <<"u8153u7ACBu6BD4u4E66">>>>
    , <<<<"Colossians">>, <<"u6B4Cu7F57u897Fu4E66">>>>
    , <<<<"1", "Thessalonians">>, <<"u5E16u6492u7F57u5C3Cu8FE6u524Du4E66">>>>
    , <<<<"2", "Thessalonians">>, <<"u5E16u6492u7F57u5C3Cu8FE6u540Eu4E66">>>>
    , <<<<"1", "Timothy">>, <<"u63D0u6469u592Au524Du4E66">>>>
    , <<<<"2", "Timothy">>, <<"u63D0u6469u592Au540Eu4E66">>>>
    , <<<<"Titus">>, <<"u63D0u591Au4E66">>>>
    , <<<<"Philemon">>, <<"u8153u5229u95E8u4E66">>>>
    , <<<<"Hebrews">>, <<"u5E0Cu4F2Fu6765u4E66">>>>
    , <<<<"James">>, <<"u96C5u5404u4E66">>>>
    , <<<<"1", "Peter">>, <<"u5F7Cu5F97u524Du4E66">>>>
    , <<<<"2", "Peter">>, <<"u5F7Cu5F97u540Eu4E66">>>>
    , <<<<"1", "John">>, <<"u7EA6u7FF0u4E00u4E66">>>>
    , <<<<"2", "John">>, <<"u7EA6u7FF0u4E8Cu4E66">>>>
    , <<<<"3", "John">>, <<"u7EA6u7FF0u4E09u4E66">>>>
    , <<<<"Jude">>, <<"u72B9u5927u4E66">>>>
    , <<<<"Revelation">>, <<"u542Fu793Au5F55">>>>
    }

\* The property names every object literal inherits from Object.prototype:
\* bookMapping[name] finds them although the literal does not list them.
ObjectPrototypeKeys ==
    { <<"constructor">>, <<"toString">>, <<"toLocaleString">>, <<"valueOf">>,
      <<"hasOwnProperty">>, <<"isPrototypeOf">>, <<"propertyIsEnumerable">>,
      <<"__proto__">> }

\* The value of such a property: a function or the prototype object, which is
\* truthy and is no string.  It is written as the name of that object.
PrototypeValue(key) == <<"Object.prototype">> \o key

\* mapBookName(bookName) under settings.translation:
\* bookMapping[bookName] || bookName.
mapBookName(bookName, trans) ==
    IF trans = "ESV" THEN bookName
    ELSE IF \E e \in bookMapping : e[1] = bookName
         THEN (CHOOSE e \in bookMapping : e[1] = bookName)[2]
         ELSE IF bookName \in ObjectPrototypeKeys
              THEN PrototypeValue(bookName)
              ELSE bookName

\* The 66 book names as the ESV document and the reading plan spell them.
CanonicalBooks ==
    {
      <<"Genesis">>, <<"Exodus">>, <<"Leviticus">>,
      <<"Numbers">>, <<"Deuteronomy">>, <<"Joshua">>,
      <<"Judges">>, <<"Ruth">>, <<"1", " ", "Samuel">>,
      <<"2", " ", "Samuel">>, <<"1", " ", "Kings">>, <<"2", " ", "Kings">>,
      <<"1", " ", "Chronicles">>, <<"2", " ", "Chronicles">>, <<"Ezra">>,
      <<"Nehemiah">>, <<"Esther">>, <<"Job">>,
      <<"Psalms">>, <<"Proverbs">>, <<"Ecclesiastes">>,
      <<"Song", " ", "of", " ", "Solomon">>, <<"Isaiah">>, <<"Jeremiah">>,
      <<"Lamentations">>, <<"Ezekiel">>, <<"Daniel">>,
      <<"Hosea">>, <<"Joel">>, <<"Amos">>,
      <<"Obadiah">>, <<"Jonah">>, <<"Micah">>,
      <<"Nahum">>, <<"Habakkuk">>, <<"Zephaniah">>,
      <<"Haggai">>, <<"Zechariah">>, <<"Malachi">>,
      <<"Matthew">>, <<"Mark">>, <<"Luke">>,
      <<"John">>, <<"Acts">>, <<"Romans">>,
      <<"1", " ", "Corinthians">>, <<"2", " ", "Corinthians">>, <<"Galatians">>,
      <<"Ephesians">>, <<"Philippians">>, <<"Colossians">>,
      <<"1", " ", "Thessalonians">>, <<"2", " ", "Thessalonians">>, <<"1", " ", "Timothy">>,
      <<"2", " ", "Timothy">>, <<"Titus">>, <<"Philemon">>,
      <<"Hebrews">>, <<"James">>, <<"1", " ", "Peter">>,
      <<"2", " ", "Peter">>, <<"1", " ", "John">>, <<"2", " ", "John">>,
      <<"3", " ", "John">>, <<"Jude">>, <<"Revelation">>
    }

RECURSIVE Ascending(_)
\* The numbers of a set in ascending order.
Ascending(S) ==
    IF S = {} THEN << >>
    ELSE LET least == CHOOSE x \in S : \A y \in S : x <= y
         IN  <<least>> \o Ascending(S \ {least})

\* for (verse = startVerse; verse <= endVerse; verse++) over one ESV chapter:
\* the verses whose text is there and truthy, in loop order.
ESVChapterVerses(chapterData, startVerse, endVerse) ==
    LET found == { v \in startVerse..endVerse :
                     /\ toString(v) \in DOMAIN chapterData
                     /\ chapterData[toString(v)] # "" }
        order == Ascending(found)
    IN  [i \in 1..Len(order) |->
            [verse |-> order[i], text |-> chapterData[toString(order[i])]]]

RECURSIVE ESVChaptersStopAtMissing(_, _, _, _)
\* ESVChapters leaving the loop at a chapter that is not there (break for
\* continue).
ESVChaptersStopAtMissing(bookData, info, chapter, acc) ==
    IF chapter > info.endChapter THEN acc
    ELSE IF toString(chapter) \notin DOMAIN bookData
         THEN acc
         ELSE LET startVerse == IF chapter = info.startChapter THEN info.startVerse ELSE 1
                  endVerse   == IF chapter = info.endChapter THEN info.endVerse ELSE 999
              IN  ESVChaptersStopAtMissing(bookData, info, chapter + 1,
                      acc \o ESVChapterVerses(bookData[toString(chapter)], startVerse, endVerse))

RECURSIVE ESVChapters(_, _, _, _)
\* The chapter loop of the ESV branch from `chapter` on; acc is `verses`.
ESVChapters(bookData, info, chapter, acc) ==
    IF chapter > info.endChapter THEN acc
    ELSE IF toString(chapter) \notin DOMAIN bookData
         THEN ESVChapters(bookData, info, chapter + 1, acc)
         ELSE LET startVerse == IF chapter = info.startChapter THEN info.startVerse ELSE 1
                  endVerse   == IF chapter = info.endChapter THEN info.endVerse ELSE 999
              IN  ESVChapters(bookData, info, chapter + 1,
                      acc \o ESVChapterVerses(bookData[toString(chapter)], startVerse, endVerse))

RECURSIVE InsertByVerse(_, _)
InsertByVerse(s, x) ==
    IF s = << >> THEN <<x>>
    ELSE IF x.verse < Head(s).verse THEN <<x>> \o s
    ELSE <<Head(s)>> \o InsertByVerse(Tail(s), x)

RECURSIVE SortByVerse(_)
\* .sort((a, b) => a.verse - b.verse): ascending and stable.
SortByVerse(s) ==
    IF s = << >> THEN << >>
    ELSE InsertByVerse(SortByVerse(SubSeq(s, 1, Len(s) - 1)), s[Len(s)])

\* Math.max(...chapterVerses.map(v => v.verse)) of a non-empty list.
MaxVerse(chapterVerses) ==
    CHOOSE m \in { chapterVerses[i].verse : i \in 1..Len(chapterVerses) } :
        \A i \in 1..Len(chapterVerses) : chapterVerses[i].verse <= m

RECURSIVE CUVSChapters(_, _, _, _)
\* The chapter loop of the CUVS branch from `chapter` on; acc is `verses`.
CUVSChapters(bookVerses, info, chapter, acc) ==
    IF chapter > info.endChapter THEN acc
    ELSE LET InChapter(v) == v.chapter = chapter
             chapterVerses == SelectSeq(bookVerses, InChapter)
         IN  IF chapterVerses = << >>
             THEN CUVSChapters(bookVerses, info, chapter + 1, acc)
             ELSE LET startVerse == IF chapter = info.startChapter THEN info.startVerse ELSE 1
                      endVerse   == IF chapter = info.endChapter THEN info.endVerse
                                    ELSE MaxVerse(chapterVerses)
                      InRange(v) == v.verse >= startVerse /\ v.verse <= endVerse
                      inRange    == SelectSeq(chapterVerses, InRange)
                      chapterRangeVerses ==
                          SortByVerse([i \in 1..Len(inRange) |->
                              [verse |-> inRange[i].verse, text |-> inRange[i].text]])
                  IN  CUVSChapters(bookVerses, info, chapter + 1, acc \o chapterRangeVerses)

Returns(list) == [threw |-> FALSE, verses |-> list]
Throws == [threw |-> TRUE, verses |-> << >>]

\* getVersesForPassage(reference) with the component's settings.translation,
\* bible and plan.  A document is [shape |-> "keyed", books |-> ...] (the
\* ESV JSON) or [shape |-> "flat", verses |-> ...] (the CUVS JSON); the code
\* casts it by settings.translation without looking at its shape.
getVersesForPassage(ref, trans, bibleState, planState) ==
    IF bibleState = << >> \/ ~planState THEN Returns(<< >>)
    ELSE LET info == parsePassageReference(ref)
             doc  == bibleState[1]
         IN  IF info = << >> THEN Returns(<< >>)
             ELSE LET passage == info[1]
                      mappedBookName == mapBookName(passage.book, trans)
                  IN  IF trans = "ESV"
                      THEN IF doc.shape # "keyed" \/ mappedBookName \notin DOMAIN doc.books
                           THEN Returns(<< >>)
                           ELSE Returns(ESVChapters(doc.books[mappedBookName], passage,
                                                    passage.startChapter, << >>))
                      ELSE IF doc.shape # "flat" THEN Throws
                           ELSE LET OfBook(v) == v.book_name = mappedBookName
                                    bookVerses == SelectSeq(doc.verses, OfBook)
                                IN  IF bookVerses = << >> THEN Returns(<< >>)
                                    ELSE Returns(CUVSChapters(bookVerses, passage,
                                                              passage.startChapter, << >>))

\* What the reading view renders for one reference of the day.
Rendered(result) == IF Len(result.verses) = 0 THEN "passage-error" ELSE "passage"

----------------------------------------------------------------------------
(* Reference strings and documents to look up *)

Genesis == <<"Genesis">>
Samuel1 == <<"1", " ", "Samuel">>
GenesisZh == <<"u521Bu4E16u8BB0">>                      \* the CUVS name of Genesis

\* Book names: one word, with a leading digit, of several words, in Chinese,
\* ending in a number, and holding what looks like a verse or a range.
Books ==
    { Genesis, Samuel1, <<"Song", " ", "of", " ", "Solomon">>, GenesisZh,
      <<"Psalm", " ", "2">>, <<"Luke", " ", "1", ":", "2">>,
      <<"Mark", " ", "1", ":", "2", "-", "3">> }

Nums == (1..MaxNum) \cup {12, 150}

Parts(forms, books, c1s, v1s, c2s, v2s) ==
    [form : forms, book : books, c1 : c1s, v1 : v1s, c2 : c2s, v2 : v2s]

\* The references of the three forms.
ValidParts(books, nums) ==
    Parts({"cross"}, books, nums, nums, nums, nums)
        \cup Parts({"range"}, books, nums, nums, {0}, nums)
        \cup Parts({"single"}, books, nums, nums, {0}, {0})

\* References put together in other ways: a book alone, a chapter without a
\* verse, text after the range, no space before the chapter, a line break
\* inside the book name, a line break as the space.
OtherParts(books, nums) ==
    Parts({"book"}, books, {0}, {0}, {0}, {0})
        \cup Parts({"chapter", "glued"}, books, nums, {0}, {0}, {0})
        \cup Parts({"trailing", "brokenbook", "linebreak"}, books, nums, nums, {0}, nums)

ChapterVerse(p) == toString(p.c1) \o <<":">> \o toString(p.v1)

\* The reference string of a way of putting it together.
RefOf(p) ==
    CASE p.form = "cross" ->
            p.book \o <<" ">> \o ChapterVerse(p) \o <<"-">>
                   \o toString(p.c2) \o <<":">> \o toString(p.v2)
      [] p.form = "range" ->
            p.book \o <<" ">> \o ChapterVerse(p) \o <<"-">> \o toString(p.v2)
      [] p.form = "single" -> p.book \o <<" ">> \o ChapterVerse(p)
      [] p.form = "book" -> p.book
      [] p.form = "chapter" -> p.book \o <<" ">> \o toString(p.c1)
      [] p.form = "glued" -> p.book \o toString(p.c1) \o <<":">> \o toString(p.c1)
      [] p.form = "trailing" ->
            p.book \o <<" ">> \o ChapterVerse(p) \o <<"-">> \o toString(p.v2)
                   \o <<" ", "and", " ", "more">>
      [] p.form = "brokenbook" ->
            <<"The", "\n">> \o p.book \o <<" ">> \o ChapterVerse(p)
                   \o <<"-">> \o toString(p.v2)
      [] p.form = "linebreak" ->
            p.book \o <<"\n">> \o ChapterVerse(p) \o <<"-">> \o toString(p.v2)

RawChars == {"Genesis", "1", " ", ":", "-"}
RawStrings == UNION { [1..n -> RawChars] : n \in 0..MaxRawLen }
RawParts == [form |-> "raw", book |-> << >>, c1 |-> 0, v1 |-> 0, c2 |-> 0, v2 |-> 0]

\* A keyed (ESV) document and a flat (CUVS) document.
ESVSample ==
    [shape |-> "keyed",
     books |-> (Genesis :> (<<"1">> :> (<<"1">> :> "In the beginning" @@ <<"2">> :> "The earth"
                                        @@ <<"3">> :> "And God said")
                            @@ <<"2">> :> (<<"1">> :> "Thus" @@ <<"2">> :> "And on"))
                @@ Samuel1 :> (<<"1">> :> (<<"1">> :> "There was a certain man")))]

CUVSVerse(name, number, c, v, t) ==
    [book_name |-> name, book |-> number, chapter |-> c, verse |-> v, text |-> t]

CUVSSample ==
    [shape |-> "flat",
     verses |-> << CUVSVerse(GenesisZh, 1, 1, 1, "zh 1:1"), CUVSVerse(GenesisZh, 1, 1, 2, "zh 1:2"),
                   CUVSVerse(GenesisZh, 1, 1, 3, "zh 1:3"), CUVSVerse(GenesisZh, 1, 2, 1, "zh 2:1"),
                   CUVSVerse(GenesisZh, 1, 2, 2, "zh 2:2"),
                   CUVSVerse(<<"u6492u6BCDu8033u8BB0u4E0A">>, 9, 1, 1, "zh 9 1:1") >>]

SampleOf(trans) == IF trans = "ESV" THEN ESVSample ELSE CUVSSample

----------------------------------------------------------------------------
(* The parser applied to reference strings, and the reading view *)

\* The streak side at rest.
StreakIdle ==
    /\ MapIdle
    /\ completedDays = {}
    /\ completionDates = << >>
    /\ today = FirstDate
    /\ tz = "UTC"
    /\ stats = << >>
    /\ statsAt = << >>

ParseInit ==
    /\ StreakIdle
    /\ translation = "ESV"
    /\ bible = << >>
    /\ plan = FALSE
    /\ parts \in ValidParts(Books, Nums) \cup OtherParts(Books, {1, 12})
    /\ reference = RefOf(parts)
    /\ parsed = FALSE
    /\ passageInfo = << >>
    /\ resolved = FALSE
    /\ verses = Returns(<< >>)

\* parsePassageReference(reference)
Parse ==
    /\ ~parsed
    /\ parsed' = TRUE
    /\ passageInfo' = parsePassageReference(reference)
    /\ UNCHANGED <<translation, bible, plan, reference, parts, resolved, verses>>
    /\ UNCHANGED streakVars
    /\ UNCHANGED mapVars
    /\ UNCHANGED appVars
    /\ UNCHANGED <<pageVars, widgetVars, fetchVars, updaterVars>>

SpecParse == ParseInit /\ [][Parse]_vars

\* The reading view with its plan, its document or neither loaded, and one
\* reference of the day's readings.
ReadInit ==
    /\ StreakIdle
    /\ translation \in {"ESV", "CUVS"}
    /\ bible \in {<< >>, <<SampleOf(translation)>>}
    /\ plan \in BOOLEAN
    /\ bible # << >> \/ plan
    /\ \/ parts \in ValidParts({Genesis, Samuel1}, 1..MaxNum) \cup OtherParts(Books, {1, 12})
          /\ reference = RefOf(parts)
       \/ parts = RawParts
          /\ reference \in RawStrings
    /\ parsed = FALSE
    /\ passageInfo = << >>
    /\ resolved = FALSE
    /\ verses = Returns(<< >>)

\* getVersesForPassage(reference), which parses the reference itself.
Resolve ==
    /\ ~resolved
    /\ resolved' = TRUE
    /\ verses' = getVersesForPassage(reference, translation, bible, plan)
    /\ UNCHANGED <<translation, bible, plan, reference, parts, parsed, passageInfo>>
    /\ UNCHANGED streakVars
    /\ UNCHANGED mapVars
    /\ UNCHANGED appVars
    /\ UNCHANGED <<pageVars, widgetVars, fetchVars, updaterVars>>

ReadNext == Parse \/ Resolve

SpecRead == ReadInit /\ [][ReadNext]_vars

----------------------------------------------------------------------------
(* The resolver applied to documents of both shapes *)

DocBooks == {Genesis, GenesisZh}
DocChapters == 1..3
DocVerses == 1..2
DocTexts == {"In the beginning", ""}

\* The verses a document may hold of one book: chapter, verse number, text.
DocRecords == [chapter : DocChapters, verse : DocVerses, text : DocTexts]

\* What a document holds of the book: at most MaxRecords verses, no chapter
\* and verse number twice.
Holdings ==
    { S \in SUBSET DocRecords :
        /\ Cardinality(S) <= MaxRecords
        /\ \A r \in S, q \in S : (r.chapter = q.chapter /\ r.verse = q.verse) => r = q }

\* The keyed (ESV) JSON document holding S under the book name, next to
\* another book: book -> chapter -> verse -> text, all keys strings.
KeyedDocument(name, S) ==
    LET chapters == { r.chapter : r \in S }
        chapterData(c) ==
            [k \in { toString(r.verse) : r \in { q \in S : q.chapter = c } } |->
                (CHOOSE r \in S : r.chapter = c /\ toString(r.verse) = k).text]
        bookData == [k \in { toString(c) : c \in chapters } |-> chapterData(parseInt(k))]
        other == Samuel1 :> (<<"1">> :> (<<"1">> :> "There was a certain man"))
    IN  [shape |-> "keyed",
         books |-> IF S = {} THEN other ELSE (name :> bookData) @@ other]

RECURSIVE InCanonicalOrder(_)
\* The verses of S by chapter and verse number.
InCanonicalOrder(S) ==
    IF S = {} THEN << >>
    ELSE LET first == CHOOSE r \in S : \A q \in S :
                          \/ r.chapter < q.chapter
                          \/ r.chapter = q.chapter /\ r.verse <= q.verse
         IN  <<first>> \o InCanonicalOrder(S \ {first})

Reverse(s) == [i \in 1..Len(s) |-> s[Len(s) + 1 - i]]

FlatVariants == {"ordered", "reversed", "repeated"}

\* The flat (CUVS) JSON document holding S under the book name, after a verse
\* of another book: in canonical order, in reverse order, or in canonical
\* order with its first verse once more at the end.
FlatDocument(name, S, variant) ==
    LET ordered == InCanonicalOrder(S)
        list == CASE variant = "ordered" -> ordered
                  [] variant = "reversed" -> Reverse(ordered)
                  [] variant = "repeated" ->
                        IF ordered = << >> THEN ordered ELSE Append(ordered, ordered[1])
    IN  [shape |-> "flat",
         verses |-> <<CUVSVerse(<<"u6492u6BCDu8033u8BB0u4E0A">>, 9, 1, 1, "zh 9 1:1")>>
                        \o [i \in 1..Len(list) |->
                               CUVSVerse(name, 1, list[i].chapter, list[i].verse, list[i].text)]]

\* The reading view with its plan and the document of its translation loaded,
\* the book of the reference held under the name the translation looks up.
ResolveInit ==
    /\ StreakIdle
    /\ translation \in {"ESV", "CUVS"}
    /\ plan = TRUE
    /\ parts \in Parts({"cross"}, DocBooks, DocChapters, DocVerses, DocChapters, DocVerses)
    /\ reference = RefOf(parts)
    /\ \E S \in Holdings :
          IF translation = "ESV"
          THEN bible = <<KeyedDocument(mapBookName(parts.book, translation), S)>>
          ELSE \E variant \in FlatVariants :
                  bible = <<FlatDocument(mapBookName(parts.book, translation), S, variant)>>
    /\ parsed = FALSE
    /\ passageInfo = << >>
    /\ resolved = FALSE
    /\ verses = Returns(<< >>)

SpecResolve == ResolveInit /\ [][Resolve]_vars

----------------------------------------------------------------------------
(* mapBookName applied to book names *)

BookMappingKeys == { e[1] : e \in bookMapping }
BookMappingValues == { e[2] : e \in bookMapping }

\* The names looked up: the canonical names, the keys of the table, names of
\* no book, and names that every object has as a property.
MapNames ==
    CanonicalBooks \cup BookMappingKeys \cup ObjectPrototypeKeys
        \cup {GenesisZh, <<"Tobit">>, <<"1", " ", "Maccabees">>}

MapInit ==
    /\ completedDays = {}
    /\ completionDates = << >>
    /\ today = FirstDate
    /\ tz = "UTC"
    /\ stats = << >>
    /\ statsAt = << >>
    /\ translation \in {"ESV", "CUVS"}
    /\ bible = << >>
    /\ plan = FALSE
    /\ reference = << >>
    /\ parts = [form |-> "none"]
    /\ parsed = FALSE
    /\ passageInfo = << >>
    /\ resolved = FALSE
    /\ verses = Returns(<< >>)
    /\ bookArg \in MapNames
    /\ mapped = << >>
    /\ AppIdle

\* mapBookName(bookArg)
MapBook ==
    /\ mapped = << >>
    /\ mapped' = <<mapBookName(bookArg, translation)>>
    /\ UNCHANGED bookArg
    /\ UNCHANGED streakVars
    /\ UNCHANGED readVars
    /\ UNCHANGED appVars
    /\ UNCHANGED <<pageVars, widgetVars, fetchVars, updaterVars>>

SpecMap == MapInit /\ [][MapBook]_vars

----------------------------------------------------------------------------
(* The application: settings, their persistence and the operations on them *)

\* The day numbers of the plan that are visited.
AppDays == {1, 2, 12}

\* The settings at hand.
Settings ==
    [completedDays |-> completedDays, completionDates |-> completionDates,
     datesShape |-> datesShape, currentDay |-> currentDay, selectedPlan |-> selectedPlan]

\* settingsForStorage with the Map handed to JSON.stringify as it is, which
\* writes it as {}.
settingsForStorageWithoutEntries(s) ==
    [completedDays   |-> SortedDays(s.completedDays),
     completionDates |-> << >>,
     currentDay      |-> s.currentDay,
     selectedPlan    |-> s.selectedPlan]

\* The persistence effect's settingsForStorage after JSON.stringify and
\* JSON.parse: the Set as an array, the Map (or array of entries) through
\* Object.fromEntries as an object whose keys are the decimal strings.
settingsForStorage(s) ==
    [completedDays   |-> SortedDays(s.completedDays),
     completionDates |-> [k \in { toString(d) : d \in DOMAIN s.completionDates } |->
                             s.completionDates[parseInt(k)]],
     currentDay      |-> s.currentDay,
     selectedPlan    |-> s.selectedPlan]

\* The settings App's initializer makes of the stored item: the array as a
\* Set, the object as a Map with parseInt of its keys.
savedSettings(saved) ==
    [completedDays   |-> { saved.completedDays[i] : i \in 1..Len(saved.completedDays) },
     completionDates |-> [d \in { parseInt(k) : k \in DOMAIN saved.completionDates } |->
                             saved.completionDates[toString(d)]],
     datesShape      |-> "Map",
     currentDay      |-> saved.currentDay,
     selectedPlan    |-> saved.selectedPlan]

\* The settings of App's initializer on an empty localStorage.
defaultSettings ==
    [completedDays |-> {}, completionDates |-> << >>, datesShape |-> "Map",
     currentDay |-> 1, selectedPlan |-> FALSE]

\* setSettings(next) and the persistence effect that follows the render, on
\* a localStorage holding `item`.  Object.fromEntries throws on a plain
\* object: the effect's error unmounts the application before setItem.
updateSettings(next, item) ==
    /\ completedDays' = next.completedDays
    /\ completionDates' = next.completionDates
    /\ datesShape' = next.datesShape
    /\ currentDay' = next.currentDay
    /\ selectedPlan' = next.selectedPlan
    /\ IF next.datesShape = "Object"
       THEN crashed' = TRUE /\ storage' = item
       ELSE crashed' = FALSE /\ storage' = <<settingsForStorage(next)>>

\* The application started on an empty localStorage.
AppInit ==
    /\ completedDays = {}
    /\ completionDates = << >>
    /\ today = FirstDate
    /\ tz = "UTC"
    /\ stats = << >>
    /\ statsAt = << >>
    /\ translation = "ESV"
    /\ bible = << >>
    /\ plan = FALSE
    /\ reference = << >>
    /\ parts = [form |-> "none"]
    /\ parsed = FALSE
    /\ passageInfo = << >>
    /\ resolved = FALSE
    /\ verses = Returns(<< >>)
    /\ bookArg = << >>
    /\ mapped = << >>
    /\ datesShape = "Map"
    /\ currentDay = 1
    /\ selectedPlan = FALSE
    /\ storage = <<settingsForStorage(defaultSettings)>>
    /\ crashed = FALSE
    /\ outcome = [kind |-> "none", streak |-> 0]
    /\ PageIdle
    /\ WidgetIdle
    /\ FetchIdle
    /\ UpdaterIdle

AppFrame ==
    /\ UNCHANGED <<today, tz, stats, statsAt>>
    /\ UNCHANGED <<widgetVars, fetchVars, updaterVars>>
    /\ UNCHANGED readVars
    /\ UNCHANGED mapVars

\* plan.data2.length of the plan ReadingView fetches.
totalDays == 3

\* handleComplete that also moves on to the next day.
handleCompleteMovesOn ==
    /\ ~crashed
    /\ currentDay \notin completedDays
    /\ datesShape # "Object"
    /\ updateSettings([Settings EXCEPT
                          !.completedDays = @ \cup {currentDay},
                          !.completionDates = (currentDay :> today) @@ @,
                          !.datesShape = "Map",
                          !.currentDay = @ + 1], storage)
    /\ UNCHANGED outcome
    /\ UNCHANGED pageVars
    /\ AppFrame

\* ReadingView.handleComplete, behind the Mark as Complete button that is
\* rendered while the current day is not completed: new Map(...) of a Map
\* or of an array of entries; of a plain object it throws in the handler.
handleComplete ==
    /\ ~crashed
    /\ currentDay \notin completedDays
    /\ datesShape # "Object"
    /\ updateSettings([Settings EXCEPT
                          !.completedDays = @ \cup {currentDay},
                          !.completionDates = (currentDay :> today) @@ @,
                          !.datesShape = "Map"], storage)
    /\ UNCHANGED outcome
    /\ UNCHANGED pageVars
    /\ AppFrame

\* ReadingView.navigateToDay
navigateToDay(targetDay) ==
    /\ ~crashed
    /\ updateSettings([Settings EXCEPT !.currentDay = targetDay], storage)
    /\ UNCHANGED outcome
    /\ UNCHANGED pageVars
    /\ AppFrame

\* The Previous Day button, rendered while currentDay > 1.
PreviousDay == currentDay > 1 /\ navigateToDay(currentDay - 1)

\* The Next Day button rendered on the last day too.
NextDayUnbounded == navigateToDay(currentDay + 1)

\* The Next Day button, rendered while currentDay < totalDays.
NextDay == currentDay < totalDays /\ navigateToDay(currentDay + 1)

\* The two buttons pressed where they lead to one of the days visited.
VisitPreviousDay == currentDay - 1 \in AppDays /\ PreviousDay

VisitNextDay == currentDay + 1 \in AppDays /\ NextDay

\* PlanSelector.selectPlan
selectPlan ==
    /\ ~crashed
    /\ updateSettings([Settings EXCEPT !.selectedPlan = TRUE, !.currentDay = 1,
                                          !.completedDays = {}], storage)
    /\ UNCHANGED outcome
    /\ UNCHANGED pageVars
    /\ AppFrame

\* Settings.deleteAllData: removeItem, then the defaults it lists merged
\* over the settings at hand; completionDates is not among them.
deleteAllData ==
    /\ ~crashed
    /\ updateSettings([Settings EXCEPT !.selectedPlan = FALSE, !.currentDay = 1,
                                          !.completedDays = {}], << >>)
    /\ UNCHANGED outcome
    /\ UNCHANGED pageVars
    /\ AppFrame

\* The four keys importData asks of a file.
RequiredKeys == {"translation", "uiLanguage", "fontSize", "theme"}

\* The files that pass importData's validation: with or without a
\* completedDays array, currentDay and selectedPlan, completionDates absent
\* or a JSON object or an array of entries.  An absent key is << >>.
ValidFiles ==
    [json : {TRUE},
     lacks : {{}},
     completedDays : {<< >>, <<{}>>, <<{1}>>},
     completionDates : {[kind |-> "absent", entries |-> << >>]}
                          \cup [kind : {"Object", "Array"},
                                entries : {<< >>, 1 :> FirstDate}],
     currentDay : {<< >>, <<12>>},
     selectedPlan : {<< >>, <<TRUE>>}]

\* The files that do not: text that is not JSON, and JSON that lacks one
\* or all of the required keys while it carries reading progress.
InvalidFiles ==
    [json : {FALSE},
     lacks : {{}},
     completedDays : {<< >>},
     completionDates : {[kind |-> "absent", entries |-> << >>]},
     currentDay : {<< >>},
     selectedPlan : {<< >>}]
    \cup
    [json : {TRUE},
     lacks : { {k} : k \in RequiredKeys } \cup {RequiredKeys},
     completedDays : {<<{1, 2}>>},
     completionDates : {[kind |-> "Array", entries |-> 2 :> FirstDate]},
     currentDay : {<<12>>},
     selectedPlan : {<<TRUE>>}]

ImportFiles == ValidFiles \cup InvalidFiles

\* The settings importData hands to updateSettings, merged over the
\* settings at hand.
importedSettings(file) ==
    [completedDays   |-> IF file.completedDays = << >> THEN {}
                         ELSE file.completedDays[1],
     completionDates |-> IF file.completionDates.kind = "absent"
                         THEN completionDates
                         ELSE file.completionDates.entries,
     datesShape      |-> IF file.completionDates.kind = "absent"
                         THEN datesShape
                         ELSE file.completionDates.kind,
     currentDay      |-> IF file.currentDay = << >> THEN currentDay
                         ELSE file.currentDay[1],
     selectedPlan    |-> IF file.selectedPlan = << >> THEN selectedPlan
                         ELSE file.selectedPlan[1]]

\* reader.onload without the validation and without JSON.parse throwing.
onloadUnvalidated(file) ==
    /\ ~crashed
    /\ updateSettings(importedSettings(file), storage)
    /\ importSuccess' = TRUE
    /\ importError' = FALSE
    /\ UNCHANGED <<outcome, exported>>
    /\ AppFrame

\* importData's reader.onload on the text of a file: JSON.parse or the
\* validation throws into the catch block, or the settings are updated.
onload(file) ==
    /\ ~crashed
    /\ IF ~file.json \/ file.lacks # {}
       THEN /\ UNCHANGED <<completedDays, completionDates, datesShape, currentDay,
                           selectedPlan, storage, crashed>>
            /\ importError' = TRUE
            /\ importSuccess' = FALSE
       ELSE /\ updateSettings(importedSettings(file), storage)
            /\ importSuccess' = TRUE
            /\ importError' = FALSE
    /\ UNCHANGED <<outcome, exported>>
    /\ AppFrame

\* Settings.importData on a file the user picks.
importData == \E file \in ImportFiles : onload(file)

\* JSON.stringify(dataToExport) read back by JSON.parse: the Set as an
\* array, a Map as {} (JSON.stringify writes none of its entries), an array
\* of entries as it is, an undefined selectedPlan left out.
dataToExport(s) ==
    [json            |-> TRUE,
     lacks           |-> {},
     completedDays   |-> <<s.completedDays>>,
     completionDates |-> IF s.datesShape = "Array"
                         THEN [kind |-> "Array", entries |-> s.completionDates]
                         ELSE [kind |-> "Object", entries |-> << >>],
     currentDay      |-> <<s.currentDay>>,
     selectedPlan    |-> IF s.selectedPlan THEN <<TRUE>> ELSE << >>]

\* Settings.exportData: the file downloaded, kept with the settings it saw.
exportData ==
    /\ ~crashed
    /\ exported' = <<[file |-> dataToExport(Settings), at |-> Settings]>>
    /\ UNCHANGED <<completedDays, completionDates, datesShape, currentDay, selectedPlan,
                   storage, crashed, outcome, importError, importSuccess>>
    /\ AppFrame

\* Settings.importData on the file exportData wrote.
importExported ==
    /\ exported # << >>
    /\ onload(exported[1].file)

\* The Dashboard rendered: past the welcome screen it computes the streak
\* in the render, where completionDates.get of anything but a Map throws.
renderDashboard ==
    /\ ~crashed
    /\ selectedPlan
    /\ IF completedDays # {} /\ datesShape # "Map"
       THEN /\ outcome' = [kind |-> "TypeError", streak |-> 0]
            /\ crashed' = TRUE
       ELSE /\ outcome' = [kind |-> "returned",
                           streak |-> DashboardStreak(completedDays, completionDates, today, tz)]
            /\ crashed' = FALSE
    /\ UNCHANGED <<completedDays, completionDates, datesShape, currentDay, selectedPlan,
                   storage>>
    /\ UNCHANGED pageVars
    /\ AppFrame

\* The Dashboard's completionRate: Math.round of a non-negative quotient.
completionRate(daysCompleted, day) == (200 * daysCompleted + day) \div (2 * day)

\* The page loaded again: App's initializer and the first persistence effect.
reload ==
    /\ updateSettings(IF storage = << >> THEN defaultSettings ELSE savedSettings(storage[1]),
                      storage)
    /\ outcome' = [kind |-> "none", streak |-> 0]
    /\ exported' = exported
    /\ importError' = FALSE
    /\ importSuccess' = FALSE
    /\ AppFrame

AppNext ==
    \/ handleComplete
    \/ VisitPreviousDay
    \/ VisitNextDay
    \/ selectPlan
    \/ deleteAllData
    \/ importData
    \/ renderDashboard
    \/ reload
    \/ Tick

SpecApp == AppInit /\ [][AppNext]_vars

\* The Settings page's export and import between completions and
\* navigations, all on one day.
ExportNext ==
    \/ handleComplete
    \/ PreviousDay
    \/ NextDay
    \/ selectPlan
    \/ exportData
    \/ importExported

SpecExport == AppInit /\ [][ExportNext]_vars

\* The reading view's buttons and the plan selector.
NavigateNext ==
    \/ handleComplete
    \/ PreviousDay
    \/ NextDay
    \/ selectPlan
    \/ Tick

SpecNavigate == AppInit /\ [][NavigateNext]_vars

----------------------------------------------------------------------------
(* The widget view: its fetchData effect and the statistics it shows *)

\* What WidgetView's calculateStreaks sets, called from a closure that saw
\* the plan state seenPlan: nothing while that plan is null.
widgetCalculateStreaks(seenPlan, shown) ==
    IF ~seenPlan THEN shown
    ELSE LET computed == calculateStreaks(completedDays, completionDates, today, tz)
         IN  [currentStreak  |-> computed.currentStreak,
              longestStreak  |-> computed.longestStreak,
              totalCompleted |-> computed.totalCompleted,
              totalDays      |-> totalDays]

WidgetFrame ==
    /\ UNCHANGED streakVars
    /\ UNCHANGED readVars
    /\ UNCHANGED mapVars
    /\ UNCHANGED appVars
    /\ UNCHANGED <<pageVars, fetchVars, updaterVars>>

\* The route /widget entered: WidgetView is mounted with its initial state
\* and its effect starts fetchData, a closure of that first render.
mountWidget ==
    /\ widgetFetch = << >>
    /\ widgetFetch' = <<[plan |-> widgetPlan, done |-> FALSE]>>
    /\ UNCHANGED <<widgetPlan, widgetLoading, widgetStats>>
    /\ WidgetFrame

\* The plan's fetch resolves: setPlan, calculateStreaks() of the closure,
\* and setLoading(false).
planFetched ==
    /\ widgetFetch # << >>
    /\ ~widgetFetch[1].done
    /\ widgetPlan' = TRUE
    /\ widgetStats' = widgetCalculateStreaks(widgetFetch[1].plan, widgetStats)
    /\ widgetLoading' = FALSE
    /\ widgetFetch' = <<[widgetFetch[1] EXCEPT !.done = TRUE]>>
    /\ WidgetFrame

\* The plan's fetch rejects: the catch block, and setLoading(false).
planFetchFailed ==
    /\ widgetFetch # << >>
    /\ ~widgetFetch[1].done
    /\ widgetLoading' = FALSE
    /\ widgetFetch' = <<[widgetFetch[1] EXCEPT !.done = TRUE]>>
    /\ UNCHANGED <<widgetPlan, widgetStats>>
    /\ WidgetFrame

\* Another route entered: WidgetView is unmounted and its state dropped.
leaveWidget ==
    /\ widgetFetch # << >>
    /\ widgetPlan' = FALSE
    /\ widgetLoading' = TRUE
    /\ widgetStats' = [currentStreak |-> 0, longestStreak |-> 0,
                       totalCompleted |-> 0, totalDays |-> 0]
    /\ widgetFetch' = << >>
    /\ WidgetFrame

WidgetNext ==
    \/ mountWidget
    \/ planFetched
    \/ planFetchFailed
    \/ leaveWidget

SpecWidget == StreakInit /\ [][WidgetNext]_vars

----------------------------------------------------------------------------
(* The reading view behind the router: its fetchData effect, the routes that *)
(* mount and unmount it, and the translation switch of the Settings page     *)

Routes == {"/", "/reading", "/settings"}

\* The number of times the reading view is entered.
MaxMounts == 3

\* A fetchData call belongs to the ReadingView instance whose effect started
\* it; its setters act on that instance while it is mounted.
Mounted(f) == route = "/reading" /\ f.instance = instance

\* The effect of [settings.translation]: fetchData, a closure over the
\* translation of the render that ran it.
fetchData(inst, trans) == [instance |-> inst, translation |-> trans, stage |-> "plan"]

FetchFrame ==
    /\ UNCHANGED <<reference, parts, parsed, passageInfo>>
    /\ UNCHANGED streakVars
    /\ UNCHANGED mapVars
    /\ UNCHANGED appVars
    /\ UNCHANGED <<pageVars, widgetVars, updaterVars>>

\* A route change.  Entering /reading mounts a new ReadingView with the
\* useState initial values and runs its effect; leaving it unmounts the
\* instance, whose fetchData calls go on.
navigate(to) ==
    /\ to # route
    /\ route' = to
    /\ IF to = "/reading"
       THEN /\ instance < MaxMounts
            /\ instance' = instance + 1
            /\ fetches' = fetches \cup {fetchData(instance + 1, translation)}
       ELSE UNCHANGED <<instance, fetches>>
    /\ plan' = FALSE
    /\ bible' = << >>
    /\ loading' = TRUE
    /\ resolved' = FALSE
    /\ verses' = Returns(<< >>)
    /\ UNCHANGED translation
    /\ FetchFrame

changeRoute == \E to \in Routes : navigate(to)

\* updateSettings({ translation }) on whatever route is shown: a mounted
\* ReadingView runs its effect again and keeps its bible and loading state.
handleTranslationChangeAnywhere(newTranslation) ==
    /\ translation' = newTranslation
    /\ fetches' = IF route = "/reading" /\ newTranslation # translation
                  THEN fetches \cup {fetchData(instance, newTranslation)}
                  ELSE fetches
    /\ UNCHANGED <<route, instance, plan, bible, loading, resolved, verses>>
    /\ FetchFrame

\* Settings.handleTranslationChange: the translation switch is on the
\* Settings page, which the router shows in place of the reading view.
handleTranslationChange(newTranslation) ==
    /\ route = "/settings"
    /\ translation' = newTranslation
    /\ UNCHANGED <<route, instance, plan, bible, loading, resolved, verses, fetches>>
    /\ FetchFrame

changeTranslation == \E newTranslation \in {"ESV", "CUVS"} : handleTranslationChange(newTranslation)

\* fetchData's plan response arrives: setPlan, then the Bible's fetch.
planResponse ==
    \E f \in fetches :
        /\ f.stage = "plan"
        /\ plan' = IF Mounted(f) THEN TRUE ELSE plan
        /\ fetches' = (fetches \ {f}) \cup {[f EXCEPT !.stage = "bible"]}
        /\ UNCHANGED <<route, instance, translation, bible, loading, resolved, verses>>
        /\ FetchFrame

\* fetchData's Bible response arrives: setBible of the document of the
\* closure's translation, and setLoading(false).
bibleResponse ==
    \E f \in fetches :
        /\ f.stage = "bible"
        /\ bible' = IF Mounted(f) THEN <<SampleOf(f.translation)>> ELSE bible
        /\ loading' = IF Mounted(f) THEN FALSE ELSE loading
        /\ fetches' = fetches \ {f}
        /\ UNCHANGED <<route, instance, translation, plan, resolved, verses>>
        /\ FetchFrame

\* One of fetchData's fetches rejects: the catch block, and setLoading(false).
fetchRejected ==
    \E f \in fetches :
        /\ loading' = IF Mounted(f) THEN FALSE ELSE loading
        /\ fetches' = fetches \ {f}
        /\ UNCHANGED <<route, instance, translation, plan, bible, resolved, verses>>
        /\ FetchFrame

\* Whether ReadingView's render gets past the loading and the error view to
\* the passages, where it calls getVersesForPassage.
ReadsDocument == route = "/reading" /\ ~loading /\ plan /\ bible # << >>

\* That render, for the reference of the day.
renderReading ==
    /\ ReadsDocument
    /\ resolved' = TRUE
    /\ verses' = getVersesForPassage(reference, translation, bible, plan)
    /\ UNCHANGED <<route, instance, translation, plan, bible, loading, fetches>>
    /\ FetchFrame

FetchInit ==
    /\ StreakIdle
    /\ translation \in {"ESV", "CUVS"}
    /\ bible = << >>
    /\ plan = FALSE
    /\ parts \in ValidParts({Genesis}, {1})
    /\ reference = RefOf(parts)
    /\ parsed = FALSE
    /\ passageInfo = << >>
    /\ resolved = FALSE
    /\ verses = Returns(<< >>)

FetchNext ==
    \/ changeRoute
    \/ changeTranslation
    \/ planResponse
    \/ bibleResponse
    \/ fetchRejected
    \/ renderReading

SpecFetch == FetchInit /\ [][FetchNext]_vars

----------------------------------------------------------------------------
(* The widget data updater: one run of the script per step *)

\* parseInt of a text: leading white space, a sign, then the digits the
\* rest starts with; << >> is NaN.
parseIntOfText(text) ==
    LET s      == Drop(text, SpacesLen(text))
        signed == s # << >> /\ Head(s) \in {"-", "+"}
        body   == IF signed THEN Tail(s) ELSE s
        n      == DigitsLen(body)
    IN  IF n = 0 THEN << >>
        ELSE IF signed /\ Head(s) = "-"
             THEN <<0 - parseInt(SubSeq(body, 1, n))>>
             ELSE <<parseInt(SubSeq(body, 1, n))>>

RECURSIVE InsertNumber(_, _)
InsertNumber(s, x) ==
    IF s = << >> THEN <<x>>
    ELSE IF x < Head(s) THEN <<x>> \o s
    ELSE <<Head(s)>> \o InsertNumber(Tail(s), x)

RECURSIVE SortNumbers(_)
\* completedDays.sort((a, b) => a - b)
SortNumbers(s) ==
    IF s = << >> THEN << >>
    ELSE InsertNumber(SortNumbers(SubSeq(s, 1, Len(s) - 1)), s[Len(s)])

\* The data the script starts from when the Keychain holds none.
defaultData ==
    [completedDays |-> << >>, completionDates |-> << >>, currentDay |-> 1,
     totalDays |-> 365]

\* The Mark Complete branch pushing the day whether or not it is there.
markCompleteAlwaysPushes(currentData, dayNumber, now) ==
    [currentData EXCEPT
        !.completedDays = SortNumbers(Append(@, dayNumber)),
        !.completionDates = (toString(dayNumber) :> now) @@ @,
        !.currentDay = dayNumber + 1]

\* The Mark Complete branch on a valid day number: what it saves.
markComplete(currentData, dayNumber, now) ==
    [currentData EXCEPT
        !.completedDays = IF Includes(@, dayNumber) THEN @
                          ELSE SortNumbers(Append(@, dayNumber)),
        !.completionDates = (toString(dayNumber) :> now) @@ @,
        !.currentDay = dayNumber + 1]

\* The day numbers entered, and the texts that are none: nothing, zero, a
\* negative number, a word.
UpdaterDays == {1, 2, 3, 12}

InvalidTexts == {<< >>, <<"0">>, <<"-", "1">>, <<"-", "1", "2">>, <<"abc">>, <<" ">>}

EnteredTexts ==
    { toString(d) : d \in UpdaterDays } \cup InvalidTexts
        \cup {<<" ", "2">>, <<"+", "3">>, <<"1", "st">>}

\* One run of the script: the alert answered with Mark Complete (0) or
\* Cancel (-1) and the text in its field.
script(response, text) ==
    LET currentData == IF keychain = << >> THEN defaultData ELSE keychain[1]
        dayNumber   == parseIntOfText(text)
    IN  /\ keychain' = IF /\ response = 0
                          /\ dayNumber # << >>
                          /\ dayNumber[1] # 0
                          /\ dayNumber[1] > 0
                       THEN <<markComplete(currentData, dayNumber[1], today)>>
                       ELSE keychain
        /\ UNCHANGED streakVars
        /\ UNCHANGED readVars
        /\ UNCHANGED mapVars
        /\ UNCHANGED appVars
        /\ UNCHANGED <<pageVars, widgetVars, fetchVars>>

runScript == \E response \in {0, -1}, text \in EnteredTexts : script(response, text)

UpdaterInit ==
    /\ StreakIdle
    /\ ReadIdle

UpdaterNext == runScript \/ Tick

SpecUpdater == UpdaterInit /\ [][UpdaterNext]_vars

----------------------------------------------------------------------------
(* What the streak claims speak of *)

\* The calendar day before a date string.
PrevDay(s) ==
    IF s[3] > 1 THEN <<s[1], s[2], s[3] - 1>>
    ELSE IF s[2] > 1 THEN <<s[1], s[2] - 1, DaysInMonth(s[2] - 1)>>
    ELSE <<s[1] - 1, 12, 31>>

\* The most recent date of a non-empty set of date strings.
Latest(S) == CHOOSE s \in S : \A r \in S : r = s \/ StrLess(r, s)

RECURSIVE RunEndingAt(_, _)
\* The number of consecutive calendar days ending at s that are all in S.
RunEndingAt(S, s) == IF s \in S THEN 1 + RunEndingAt(S, PrevDay(s)) ELSE 0

\* The length of the longest run of consecutive calendar days in S.
LongestRun(S) ==
    IF S = {} THEN 0
    ELSE CHOOSE n \in 0..Cardinality(S) :
            /\ \E s \in S : RunEndingAt(S, s) = n
            /\ \A s \in S : RunEndingAt(S, s) <= n

AllDated == completedDays \subseteq DOMAIN completionDates

\* The dates of the completed days as the last call saw them.
DatesAtCall == { DateOfDay(completionDates, d, statsAt[1]) : d \in completedDays }

\* completionDates with the date `at` filled in for every undated completed day.
FilledIn(at) ==
    [d \in (DOMAIN completionDates) \cup completedDays |->
        IF d \in DOMAIN completionDates THEN completionDates[d] ELSE at]

Called == stats # << >>

\* C1: for a non-empty record, currentStreak is the number of consecutive
\* calendar days, ending at the most recent completion date and walking back
\* one day at a time, that all appear among the completion dates.
C1_CurrentStreakIsRunAtMostRecent ==
    (Called /\ completedDays # {}) =>
        stats[1].currentStreak = RunEndingAt(DatesAtCall, Latest(DatesAtCall))

\* C2: for a non-empty record, longestStreak is the length of the longest
\* maximal run of gap-free calendar days that each have a completion; a date
\* shared by two completed days counts once.
C2_LongestStreakIsLongestRun ==
    (Called /\ completedDays # {}) =>
        stats[1].longestStreak = LongestRun(DatesAtCall)

\* C3: n completed days recorded on n distinct consecutive calendar days give
\* currentStreak = longestStreak = totalCompleted = n, and totalCompleted is
\* always the number of completed days.
C3_ConsecutiveDaysGiveN ==
    Called =>
        /\ stats[1].totalCompleted = Cardinality(completedDays)
        /\ LET n == Cardinality(completedDays)
               recorded == { completionDates[d] : d \in completedDays \cap DOMAIN completionDates }
           IN  (/\ n >= 1
                /\ AllDated
                /\ Cardinality(recorded) = n
                /\ RunEndingAt(recorded, Latest(recorded)) = n)
               => /\ stats[1].currentStreak = n
                  /\ stats[1].longestStreak = n

\* C4: with completedDays empty, whatever completionDates holds, the result
\* is currentStreak = 0, longestStreak = 0, totalCompleted = 0.
C4_EmptyRecordGivesZeros ==
    (Called /\ completedDays = {}) =>
        stats[1] = [currentStreak |-> 0, longestStreak |-> 0, totalCompleted |-> 0]

C4_Witness ==
    /\ Called
    /\ completedDays = {}
    /\ Cardinality(DOMAIN completionDates) >= 2

\* C5 as claimed: two calls on the same record return the same result, also
\* on different calendar days and with undated completed days.
C5_SameRecordSameResult ==
    [][(Called /\ stats' # << >>) => stats' = stats]_vars

\* C5 as amended: when every completed day has a recorded date, two calls on
\* the same record return the same result, on whatever calendar days they
\* are made.
C5_DatedRecordSameResult ==
    [][(Called /\ stats' # << >> /\ AllDated) => stats' = stats]_vars

C5_Witness ==
    /\ Called
    /\ statsAt[1] # today
    /\ AllDated
    /\ Cardinality(completedDays) >= 2
    /\ stats[1] = calculateStreaks(completedDays, completionDates, today, tz)

\* C6: a completed day without a recorded date counts as completed on the
\* date of the call: the result is the result on the record with that date
\* filled in for every undated completed day (computed at the clock's present
\* date, which a fully dated record does not read).
C6_UndatedMeansToday ==
    Called =>
        /\ stats[1] = calculateStreaks(completedDays, FilledIn(statsAt[1]), today, tz)
        /\ DashboardStreak(completedDays, completionDates, statsAt[1], tz)
             = DashboardStreak(completedDays, FilledIn(statsAt[1]), today, tz)

C6_Witness ==
    /\ Called
    /\ \E d \in completedDays : d \notin DOMAIN completionDates
    /\ \E d \in completedDays : d \in DOMAIN completionDates /\ completionDates[d] # statsAt[1]
    /\ stats[1].currentStreak >= 2

----------------------------------------------------------------------------
(* What the parser claims speak of *)

Descriptor(b, sc, sv, ec, ev) ==
    [book |-> b, startChapter |-> sc, startVerse |-> sv, endChapter |-> ec, endVerse |-> ev]

\* C7: a reference '<Book> <C1>:<V1>-<C2>:<V2>' yields startChapter = C1,
\* startVerse = V1, endChapter = C2, endVerse = V2: it is parsed by the
\* cross-chapter pattern, not as a range, a single verse or a failure.
C7_CrossChapterParsed ==
    (parsed /\ parts.form = "cross") =>
        passageInfo = <<Descriptor(parts.book, parts.c1, parts.v1, parts.c2, parts.v2)>>

C7_Witness ==
    /\ parsed
    /\ parts.form = "cross"
    /\ parts.book = Samuel1
    /\ parts.c1 = 1 /\ parts.v1 = 12 /\ parts.c2 = 2 /\ parts.v2 = 150
    /\ passageInfo # << >>

\* C8: a single-verse reference '<Book> <C>:<V>' yields startChapter =
\* endChapter = C and startVerse = endVerse = V, with book the text before the
\* chapter, also for book names with spaces or digits.
C8_SingleVerseParsed ==
    (parsed /\ parts.form = "single") =>
        passageInfo = <<Descriptor(parts.book, parts.c1, parts.v1, parts.c1, parts.v1)>>

C8_Witness ==
    /\ parsed
    /\ parts.form = "single"
    /\ parts.book = <<"Song", " ", "of", " ", "Solomon">>
    /\ parts.c1 = 2 /\ parts.v1 = 12
    /\ passageInfo # << >>

\* C9: a reference '<Book> <C>:<V1>-<V2>' yields startChapter = endChapter = C,
\* startVerse = V1 and endVerse = V2.
C9_SingleChapterRangeParsed ==
    (parsed /\ parts.form = "range") =>
        passageInfo = <<Descriptor(parts.book, parts.c1, parts.v1, parts.c1, parts.v2)>>

C9_Witness ==
    /\ parsed
    /\ parts.form = "range"
    /\ parts.book = Genesis
    /\ parts.c1 = 12 /\ parts.v1 = 1 /\ parts.v2 = 2
    /\ passageInfo # << >>

\* A number, as the grammar writes it: digits only, at least one.
IsNumeral(t) == t # << >> /\ \A i \in 1..Len(t) : IsDigit(t[i])

\* C:V, C:V1-V2 or C1:V1-C2:V2.
IsChapterVerseToken(t) ==
    \E a \in 1..Len(t) :
        /\ IsNumeral(SubSeq(t, 1, a - 1))
        /\ t[a] = ":"
        /\ \/ IsNumeral(Drop(t, a))
           \/ \E b \in (a + 1)..Len(t) :
                 /\ IsNumeral(SubSeq(t, a + 1, b - 1))
                 /\ t[b] = "-"
                 /\ \/ IsNumeral(Drop(t, b))
                    \/ \E c \in (b + 1)..Len(t) :
                          /\ IsNumeral(SubSeq(t, b + 1, c - 1))
                          /\ t[c] = ":"
                          /\ IsNumeral(Drop(t, c))

\* The reference grammar: a book name (one line of text), white space, and a
\* chapter-and-verse token of one of the three patterns.
InGrammar(s) ==
    \E i \in 1..Len(s) : \E j \in (i + 1)..Len(s) :
        /\ \A k \in 1..i : ~IsLineTerminator(s[k])
        /\ \A k \in (i + 1)..j : IsSpace(s[k])
        /\ IsChapterVerseToken(Drop(s, j))

\* C10: a reference that matches none of the three patterns makes
\* parsePassageReference return null (no partial descriptor), and
\* getVersesForPassage return the empty list, shown as not available.
C10_NoMatchGivesNothing ==
    ~InGrammar(reference) =>
        /\ parsed => passageInfo = << >>
        /\ resolved => (verses = Returns(<< >>) /\ Rendered(verses) = "passage-error")

C10_Witness ==
    /\ parsed
    /\ resolved
    /\ bible # << >>
    /\ plan
    /\ reference = <<"Genesis", " ", "1">>
    /\ ~InGrammar(reference)

\* C11: every descriptor that parsePassageReference produces has
\* startChapter <= endChapter.
C11_StartChapterNotAfterEnd ==
    (parsed /\ passageInfo # << >>) =>
        passageInfo[1].startChapter <= passageInfo[1].endChapter

\* C12: under CUVS mapBookName maps each of the 66 canonical English names to
\* its Chinese name; none falls through to the identity fallback.
C12_CanonicalNamesMapped ==
    (mapped # << >> /\ translation = "CUVS" /\ bookArg \in CanonicalBooks) =>
        (mapped[1] \in BookMappingValues /\ mapped[1] # bookArg)

\* C13: mapBookName returns its input for every name under ESV, and under CUVS
\* for every name that is not a key of the lookup table.
C13_UnmappedNamesUnchanged ==
    (mapped # << >> /\ (translation = "ESV" \/ bookArg \notin BookMappingKeys)) =>
        mapped[1] = bookArg

----------------------------------------------------------------------------
(* What the resolver claims speak of *)

\* The descriptor of the reference at hand, and the name its book is looked
\* up under.
Asked == Descriptor(parts.book, parts.c1, parts.v1, parts.c2, parts.v2)
LookedUp == mapBookName(parts.book, translation)

\* The verses a document holds of a book, as chapter, verse number and text.
HeldBy(doc, name) ==
    IF doc.shape = "keyed"
    THEN IF name \notin DOMAIN doc.books THEN {}
         ELSE UNION { { [chapter |-> parseInt(c), verse |-> parseInt(v),
                         text |-> doc.books[name][c][v]] : v \in DOMAIN doc.books[name][c] }
                      : c \in DOMAIN doc.books[name] }
    ELSE { [chapter |-> doc.verses[i].chapter, verse |-> doc.verses[i].verse,
            text |-> doc.verses[i].text] :
              i \in { j \in 1..Len(doc.verses) : doc.verses[j].book_name = name } }

Held == HeldBy(bible[1], LookedUp)

\* A list of document verses as the resolver hands them out.
AsVerses(list) == [i \in 1..Len(list) |-> [verse |-> list[i].verse, text |-> list[i].text]]

\* C14: the verse list is ordered by chapter and, within a chapter, by verse
\* number strictly ascending, and has no (chapter, verse) pair twice: it lists
\* some of the document's verses of the book, each once, in canonical order.
C14_OrderedWithoutDuplicates ==
    resolved => \E T \in SUBSET Held : verses.verses = AsVerses(InCanonicalOrder(T))

\* The reference to chapter c alone, with the verses the descriptor asks of
\* it: from startVerse in the start chapter and from 1 otherwise, to endVerse
\* in the end chapter and to the end of the chapter otherwise.
ChapterAlone(c) ==
    RefOf([form |-> "cross", book |-> parts.book,
           c1 |-> c, v1 |-> IF c = Asked.startChapter THEN Asked.startVerse ELSE 1,
           c2 |-> c, v2 |-> IF c = Asked.endChapter THEN Asked.endVerse ELSE 999])

RECURSIVE ChapterByChapter(_)
\* What the resolver returns for the chapters of the range asked one at a
\* time, from chapter c on.
ChapterByChapter(c) ==
    IF c > Asked.endChapter THEN << >>
    ELSE getVersesForPassage(ChapterAlone(c), translation, bible, plan).verses
            \o ChapterByChapter(c + 1)

ChaptersAsked == Asked.startChapter..Asked.endChapter
ChaptersHeld == { r.chapter : r \in Held }

AskedOfChapter(c) ==
    LET inChapter == { r \in Held : r.chapter = c }
        lo == IF c = Asked.startChapter THEN Asked.startVerse ELSE 1
    IN  { r \in inChapter :
            /\ lo <= r.verse
            /\ IF c = Asked.endChapter THEN r.verse <= Asked.endVerse
               ELSE \A q \in inChapter : q.verse <= r.verse \/ r.verse <= q.verse }

RECURSIVE AskedFrom(_)
AskedFrom(c) ==
    IF c > Asked.endChapter THEN << >>
    ELSE AsVerses(InCanonicalOrder(AskedOfChapter(c))) \o AskedFrom(c + 1)

\* C16: for each chapter of the range that the document holds, the resolver
\* outputs exactly the verses present in [v_lo, v_hi] with the document's
\* text; a window longer than the chapter is clamped to the verses there.
C16_ExactlyTheVersesAsked ==
    resolved => verses = Returns(AskedFrom(Asked.startChapter))

\* The flat document that holds the verses of a keyed document.
FlatOf(doc) ==
    [shape |-> "flat",
     verses |-> LET names == DOMAIN doc.books
                    name == CHOOSE n \in names : n # Samuel1
                    held == IF names = {Samuel1} THEN << >>
                            ELSE InCanonicalOrder(HeldBy(doc, name))
                IN  [i \in 1..Len(held) |->
                        CUVSVerse(name, 1, held[i].chapter, held[i].verse, held[i].text)]
                    \o <<CUVSVerse(Samuel1, 9, 1, 1, doc.books[Samuel1][<<"1">>][<<"1">>])>>]

\* C17: on a keyed and a flat document holding the same verses under the same
\* book name, the ESV branch and the CUVS branch return the same verse list.
C17_BranchesAgree ==
    (resolved /\ translation = "ESV" /\ mapBookName(parts.book, "CUVS") = parts.book) =>
        verses = getVersesForPassage(reference, "CUVS", <<FlatOf(bible[1])>>, plan)

----------------------------------------------------------------------------
(* What the application claims speak of *)

\* C18: no resolution call and no streak computation call aborts; here, the
\* Dashboard's streak computation on every record the application holds.
C18_NoComputationThrows == outcome.kind # "TypeError"

\* C19: every day number that is a key of completionDates is a member of
\* completedDays.
C19_DatedDaysAreCompleted == DOMAIN completionDates \subseteq completedDays

\* C20: writing the settings to storage and reading them back yields the same
\* completedDays set and the same day-to-date mapping with integer keys.
C20_PersistAndLoadRoundTrip ==
    datesShape = "Map" =>
        LET loaded == savedSettings(settingsForStorage(Settings))
        IN  /\ loaded.completedDays = completedDays
            /\ loaded.completionDates = completionDates
            /\ loaded.datesShape = "Map"
            /\ ~crashed => storage = <<settingsForStorage(Settings)>>

C20_Witness ==
    /\ datesShape = "Map"
    /\ completedDays = {1, 12}
    /\ DOMAIN completionDates = {1, 12}
    /\ completionDates[1] # completionDates[12]
    /\ storage = <<settingsForStorage(Settings)>>
    /\ savedSettings(storage[1]).completionDates = completionDates

\* C21: importing the file exportData wrote restores completedDays,
\* currentDay, selectedPlan and completionDates as they were at the export,
\* completionDates being a Map again.
C21_ImportRestoresExport ==
    [][importExported =>
          LET at == exported[1].at
          IN  /\ completedDays' = at.completedDays
              /\ currentDay' = at.currentDay
              /\ selectedPlan' = at.selectedPlan
              /\ completionDates' = at.completionDates
              /\ datesShape' = "Map"]_vars

\* C22: deleteAllData leaves the default values only, in the settings and in
\* the storage: no plan, currentDay 1, no completed day, no completion date.
C22_DeleteLeavesDefaults ==
    [][deleteAllData =>
          /\ completedDays' = {}
          /\ completionDates' = << >>
          /\ currentDay' = 1
          /\ ~selectedPlan'
          /\ storage' \in {<< >>, <<settingsForStorage(defaultSettings)>>}]_vars

----------------------------------------------------------------------------
(* What the widget claims speak of *)

\* C23: with a non-empty completion record, once loading has finished and
\* the plan is loaded, the widget shows the statistics computed from
\* completedDays, completionDates and the plan's number of days.
C23_WidgetShowsComputedStats ==
    (~widgetLoading /\ widgetPlan /\ completedDays # {}) =>
        widgetStats = widgetCalculateStreaks(TRUE, widgetStats)

\* C24: for every non-empty completion record the computed statistics
\* satisfy 1 <= currentStreak <= longestStreak <= totalCompleted.
C24_StatisticsOrdered ==
    (Called /\ completedDays # {}) =>
        /\ 1 <= stats[1].currentStreak
        /\ stats[1].currentStreak <= stats[1].longestStreak
        /\ stats[1].longestStreak <= stats[1].totalCompleted

----------------------------------------------------------------------------
(* What the claims about the application's operations speak of *)

\* C25: handleComplete on the current day d adds d to completedDays and sets
\* completionDates[d] to today's date; currentDay, the selected plan, the
\* other members of completedDays and the other days' dates stay as they are.
C25_HandleCompleteFrame ==
    [][handleComplete =>
          /\ completedDays' = completedDays \cup {currentDay}
          /\ DOMAIN completionDates' = (DOMAIN completionDates) \cup {currentDay}
          /\ completionDates'[currentDay] = today
          /\ \A d \in (DOMAIN completionDates) \ {currentDay} :
                completionDates'[d] = completionDates[d]
          /\ currentDay' = currentDay
          /\ selectedPlan' = selectedPlan]_vars

\* Day 2 completed on a later date than day 1, whose date is kept.
C25_Witness ==
    /\ completedDays = {1, 2}
    /\ DOMAIN completionDates = {1, 2}
    /\ completionDates[1] = FirstDate
    /\ completionDates[2] # FirstDate
    /\ completionDates[2] = today
    /\ currentDay = 2
    /\ selectedPlan

\* C26: importData on a file that is not valid JSON, or that lacks one of
\* translation, uiLanguage, fontSize and theme, leaves the settings
\* unchanged, sets the import error message and clears the success message.
C26_InvalidImportRejected ==
    [][(\E file \in InvalidFiles : onload(file)) =>
          /\ UNCHANGED <<completedDays, completionDates, datesShape, currentDay,
                         selectedPlan, storage>>
          /\ importError'
          /\ ~importSuccess']_vars

\* An invalid file has been refused after a successful import and a
\* completion: the error message is set over settings that hold progress.
C26_Witness ==
    /\ importError
    /\ ~importSuccess
    /\ completedDays = {1, 12}
    /\ currentDay = 12
    /\ ~crashed

\* C27: from currentDay = 1, Previous Day and Next Day navigations,
\* completions and plan selections keep 1 <= currentDay <= totalDays.
C27_CurrentDayWithinPlan == 1 <= currentDay /\ currentDay <= totalDays

\* The last day of the plan reached and completed under a selected plan.
C27_Witness ==
    /\ currentDay = totalDays
    /\ totalDays \in completedDays
    /\ selectedPlan

\* C28: in every state reached by completing days and navigating between
\* days, the completion rate the Dashboard shows lies between 0 and 100.
C28_CompletionRateWithinBounds ==
    selectedPlan =>
        completionRate(Cardinality(completedDays), currentDay) \in 0..100

----------------------------------------------------------------------------
(* What the claim about the reading view's document speaks of *)

----------------------------------------------------------------------------
(* What the claim about the widget data updater speaks of *)

\* The stored completedDays is strictly ascending and each of its days has an
\* entry in completionDates.
UpdaterRecordSound ==
    keychain # << >> =>
        LET data == keychain[1]
        IN  /\ \A i \in 1..(Len(data.completedDays) - 1) :
                  data.completedDays[i] < data.completedDays[i + 1]
            /\ \A i \in 1..Len(data.completedDays) :
                  toString(data.completedDays[i]) \in DOMAIN data.completionDates

\* C30: after any sequence of runs from the empty record completedDays is
\* strictly ascending and each of its days has a completion date; marking a
\* day already completed changes only its date and currentDay; a day number
\* that is missing, zero or negative leaves the stored data unchanged.
C30_UpdaterKeepsRecord ==
    [][/\ UpdaterRecordSound'
       /\ \A text \in InvalidTexts : script(0, text) => keychain' = keychain
       /\ \A d \in UpdaterDays :
             (/\ keychain # << >>
              /\ Includes(keychain[1].completedDays, d)
              /\ script(0, toString(d))) =>
                 /\ keychain'[1].completedDays = keychain[1].completedDays
                 /\ keychain'[1].totalDays = keychain[1].totalDays
                 /\ DOMAIN keychain'[1].completionDates = DOMAIN keychain[1].completionDates
                 /\ keychain'[1].completionDates[toString(d)] = today
                 /\ \A k \in DOMAIN keychain[1].completionDates \ {toString(d)} :
                       keychain'[1].completionDates[k] = keychain[1].completionDates[k]
                 /\ keychain'[1].currentDay = d + 1]_vars

\* Day 1 marked after days 2 and 12, on a later date than day 12.
C30_Witness ==
    /\ keychain # << >>
    /\ keychain[1].completedDays = <<1, 2, 12>>
    /\ keychain[1].currentDay = 2
    /\ keychain[1].completionDates[<<"1">>] # keychain[1].completionDates[<<"1", "2">>]

====
